---------------------------- MODULE Spec2Model ----------------------------
(* branch-deploy: the main run of the Action (src/unnamed/part_000, run()),  *)
(* the deployment helpers (src/src/functions/deployment.js), and the lock    *)
(* coordinator / post-run step they call.  Several invocations of run() are  *)
(* independent processes that share only the platform's refs (the locks)     *)
(* and deployments.                                                          *)
EXTENDS Integers, Sequences, FiniteSets, TLC

(* ------------------------------ bounds --------------------------------- *)

\* number of invocations (workflow runs) that may be in flight together
NumInvocations == 2

(* ------------------------------ domains -------------------------------- *)

Invocations == 1..NumInvocations

\* inputs.environment_targets
Envs == {"dev", "staging", "prod"}

\* LOCK_METADATA.globalLockBranch: the fixed key of the global lock
GlobalKey == "global"

LockKeys == Envs \cup {GlobalKey}

Shas == {"sha1", "sha2"}

\* values of inputs.enforced_deployment_order
Orders == {<< >>, <<"dev", "staging", "prod">>, <<"staging", "prod">>}

\* the value of an environment that did not resolve (null / false)
NoEnv == "null"

\* createDeploy.id when the platform returned no id
NoId == 0

\* lockData of a response that carries no lock
NullLock ==
    [environment |-> NoEnv, global |-> FALSE, sticky |-> FALSE,
     created_by |-> 0, link |-> 0]

\* precheckResults before prechecks ran
NoPrecheck == [status |-> "unset", noopMode |-> FALSE, sha |-> "null"]

\* lockResponse before lock() was called
NoLockResponse == [status |-> "unset", lockData |-> NullLock]

\* createDeploy before createDeployment was called
NoCreateDeploy == [id |-> NoId, message |-> "unset"]

\* the run-scoped key/value state before any saveState
EmptyState ==
    [isPost |-> "unset", bypass |-> "unset", comment_id |-> "unset",
     reaction_id |-> "unset", environment |-> "unset", ref |-> "unset",
     initial_comment_id |-> "unset", noop |-> "unset", deployment_id |-> "unset"]

\* the inputs of a run that are not being read: each run reads its own inputs
\* (line 40), and the model holds an input only while the code uses it
NoInputs ==
    [enforced_deployment_order |-> << >>, sticky_locks |-> FALSE,
     sticky_locks_for_noop |-> FALSE]

\* one invocation before run() starts
NewRun ==
    [pc               |-> "idle",        \* position in run() / post()
     type             |-> "unset",       \* the 'type' output
     cmd              |-> {},            \* the trigger matches that are still to be read
     validPermissionsRes |-> "unset",    \* validPermissions(): "true" or its "message"
     environment      |-> NoEnv,         \* the resolved environment (or lock key)
     inputs           |-> NoInputs,      \* the inputs in use at this position
     stableBranchUsed |-> FALSE,         \* environmentObj.stable_branch_used, while in use
     precheckResults  |-> NoPrecheck,
     commitSafetyCheckResults |-> "unset",   \* .status of commitSafetyChecks()
     deploymentOrderResults   |-> "unset",   \* .valid of validDeploymentOrder()
     stickyLocks      |-> FALSE,         \* the sticky flag passed to lock()
     leaveComment     |-> FALSE,         \* the leaveComment flag passed to lock()
     lockResponse     |-> NoLockResponse,
     createDeploy     |-> NoCreateDeploy,
     state            |-> EmptyState,    \* core.saveState
     failed           |-> FALSE,         \* core.setFailed was called
     result           |-> "running",     \* what run() returned
     log              |-> << >>]         \* the calls made so far, in order

VARIABLES
    refs,          \* platform: lock key -> lock metadata; DOMAIN refs = the lock refs that exist
    deployments,   \* platform: environment -> its deployments, oldest first
    run,           \* invocation -> the locals of its run()
    held           \* history: lock key -> invocations whose acquire succeeded since its last release

vars == <<refs, deployments, run, held>>

(* ------------------------------ helpers -------------------------------- *)

\* run' with the locals of invocation i replaced by r
Step(i, r) == run' = [run EXCEPT ![i] = r]

Remove(f, keys) == [k \in (DOMAIN f) \ keys |-> f[k]]

Logged(r, call) == \E n \in 1..Len(r.log) : r.log[n] = call

\* position of the first occurrence of call in a log (0 when absent)
Pos(r, call) ==
    IF Logged(r, call)
    THEN CHOOSE n \in 1..Len(r.log) :
            /\ r.log[n] = call
            /\ \A m \in 1..(n - 1) : r.log[m] # call
    ELSE 0

(* ------------------- deployment.js: reading deployments ---------------- *)

\* a deployment that was not found (null)
NullDeployment == [id |-> NoId, state |-> "null", commit |-> "null", by |-> 0]

\* the GraphQL query: first: 1, orderBy CREATED_AT DESC
DeploymentNodes_Oldest(environment) ==
    LET all == deployments[environment]
    IN  IF Len(all) = 0 THEN << >> ELSE << all[1] >>

DeploymentNodes(environment) ==
    LET all == deployments[environment]
    IN  IF Len(all) = 0 THEN << >> ELSE << all[Len(all)] >>

latestActiveDeployment(environment) ==
    LET nodes == DeploymentNodes(environment)
    IN  IF Len(nodes) = 0 THEN NullDeployment ELSE nodes[1]

activeDeployment_NoShaCheck(environment, sha) ==
    LET deployment == latestActiveDeployment(environment)
    IN  IF deployment = NullDeployment
        THEN FALSE
        ELSE deployment.state = "ACTIVE"

activeDeployment(environment, sha) ==
    LET deployment == latestActiveDeployment(environment)
    IN  IF deployment = NullDeployment
        THEN FALSE
        ELSE deployment.state = "ACTIVE" /\ deployment.commit = sha

(* ------------------- deployment-order validator (4.3) ------------------ *)

\* index of an environment in the order (0 when it is not in it)
IndexIn(order, environment) ==
    IF \E n \in 1..Len(order) : order[n] = environment
    THEN CHOOSE n \in 1..Len(order) : order[n] = environment
    ELSE 0

\* the environments strictly before the target, in order
Preceding(order, environment) ==
    LET n == IndexIn(order, environment)
    IN  IF n = 0 THEN << >> ELSE SubSeq(order, 1, n - 1)

validDeploymentOrder(order, environment, sha) ==
    LET prior   == Preceding(order, environment)
        results == [n \in 1..Len(prior) |->
                       [environment |-> prior[n],
                        active      |-> activeDeployment(prior[n], sha)]]
    IN  [valid   |-> \A n \in 1..Len(results) : results[n].active,
         results |-> results]

(* ------------------- run(): the conditions of its branches ------------- *)

\* lines 122-138: the 'type' output from the six trigger matches
TypeOutput(isDeploy, isNoopDeploy, isLock, isUnlock, isHelp, isLockInfoAlias) ==
    IF isDeploy \/ isNoopDeploy THEN "deploy"
    ELSE IF isLock THEN "lock"
    ELSE IF isUnlock THEN "unlock"
    ELSE IF isHelp THEN "help"
    ELSE IF isLockInfoAlias THEN "lock-info-alias"
    ELSE "none"

\* line 429
PrechecksFailed_Never(precheck) == FALSE

PrechecksFailed(precheck) == precheck.status # "true"

\* line 456
CommitSafetyFailed(status) == status # "true"

\* lines 470-473
OrderCheckApplies_IgnoreStable(order, stable) == Len(order) > 0

OrderCheckApplies(order, stable) == Len(order) > 0 /\ stable # TRUE

\* line 482
OrderInvalid_Never(deploymentOrderResults) == FALSE

OrderInvalid(deploymentOrderResults) == ~deploymentOrderResults.valid

\* lines 531-545
StickyLocks_IgnoreNoop(noopMode, sticky_locks, sticky_locks_for_noop) == sticky_locks

StickyLocks(noopMode, sticky_locks, sticky_locks_for_noop) ==
    IF noopMode
    THEN (IF sticky_locks_for_noop THEN TRUE ELSE FALSE)
    ELSE sticky_locks

\* line 548
LeaveComment(stickyLocks) == IF stickyLocks = FALSE THEN TRUE ELSE FALSE

\* line 362: the explicit lock command asks for a sticky lock
LockCommandSticky_False == FALSE

LockCommandSticky == TRUE

\* line 567
LockRequestFailed_Never(lockResponse) == FALSE

LockRequestFailed(lockResponse) == lockResponse.status = "false"

\* lines 674-677
MergeRequired(deploy) == deploy.id = NoId /\ deploy.message = "Auto-merged"

\* lines 161 and 189: validPermissions() returned a message, not true
PermissionDenied_Never(validPermissionsRes) == FALSE

PermissionDenied(validPermissionsRes) == validPermissionsRes # TRUE

\* lines 221 and 404: the environment target did not resolve
TargetInvalid_Never(target) == FALSE

TargetInvalid(target) == target = NoEnv

\* lines 227 and 229-234: which branch of the lock/unlock path runs
LockPathBranch_NoAlias(cmd, details) ==
    IF "lock" \in cmd \/ "lock-info-alias" \in cmd
    THEN (IF details THEN "lockinfo" ELSE "lockcmd")
    ELSE "unlock"

LockPathBranch(cmd, details) ==
    IF "lock" \in cmd \/ "lock-info-alias" \in cmd
    THEN (IF details \/ "lock-info-alias" \in cmd THEN "lockinfo" ELSE "lockcmd")
    ELSE "unlock"

(* ------------------- run(): effects on its locals ----------------------- *)

Call(r, name) == [r EXCEPT !.log = Append(@, name)]

SaveState_SkipsRef(r, key, value) ==
    IF key = "ref" THEN r ELSE [r EXCEPT !.state[key] = value]

SaveState(r, key, value) == [r EXCEPT !.state[key] = value]

SetFailed(r) == [r EXCEPT !.failed = TRUE]

Return_Twice(r, value) == [r EXCEPT !.result = value]

Return(r, value) == [r EXCEPT !.pc = "returned", !.result = value]

Goto(r, label) == [r EXCEPT !.pc = label]

\* the failure exits of run(): actionStatus, saveState('bypass'), setFailed, return 'failure'
FailureExit_NoBypass(r) ==
    Return(SetFailed(Call(r, "actionStatus")), "failure")

FailureExit(r) ==
    Return(SetFailed(SaveState(Call(r, "actionStatus"), "bypass", "true")), "failure")

\* lines 707-711: the catch block
Catch_NoBypass(r) ==
    [SetFailed(r) EXCEPT !.pc = "returned", !.result = "error"]

Catch(r) ==
    [SetFailed(SaveState(r, "bypass", "true")) EXCEPT !.pc = "returned", !.result = "error"]

(* ------------------- lock coordinator (4.4) ---------------------------- *)

\* the metadata record written into a new lock ref
LockData(i, key, sticky) ==
    [environment |-> IF key = GlobalKey THEN NoEnv ELSE key,
     global      |-> key = GlobalKey,
     sticky      |-> sticky,
     created_by  |-> i,
     link        |-> i]

\* the global lock is checked first by every environment-scoped acquire
GlobalLockBlocks(key) == key # GlobalKey /\ GlobalKey \in DOMAIN refs

\* the platform's atomic ref creation: fails when the ref exists
CreateRefFails(key) == key \in DOMAIN refs

Contention(key) == [status |-> "false", lockData |-> refs[key]]

Acquired(i, key, sticky) == [status |-> "true", lockData |-> LockData(i, key, sticky)]

\* refs and held after invocation i created the ref of key
CreateRef(i, key, sticky) ==
    /\ refs' = [k \in (DOMAIN refs) \cup {key} |->
                   IF k = key THEN LockData(i, key, sticky) ELSE refs[k]]
    /\ held' = [held EXCEPT ![key] = @ \cup {i}]

\* refs and held after the refs of keys were deleted
DeleteRefs(keys) ==
    /\ refs' = Remove(refs, keys)
    /\ held' = [k \in LockKeys |-> IF k \in keys THEN {} ELSE held[k]]

\* the deletion of a ref that exists may fail (the ref then remains); a ref
\* that is absent is no error
DeleteRefMayFail(key) == key \in DOMAIN refs

\* inspect(key): read-only
Inspect(key) ==
    IF key \in DOMAIN refs
    THEN [status |-> "details-only", lockData |-> refs[key]]
    ELSE [status |-> "null", lockData |-> NullLock]

(* ------------------- platform: deployments ----------------------------- *)

DeploymentCount ==
    Len(deployments["dev"]) + Len(deployments["staging"]) + Len(deployments["prod"])

\* an earlier deployment that finished with success
EarlierActive(id, sha) == [id |-> id, state |-> "ACTIVE", commit |-> sha, by |-> 0]

\* the deployments that exist before the first invocation: none, or sha1
\* deployed with success to dev and to staging
EarlierDeployments ==
    {[e \in Envs |-> << >>],
     [e \in Envs |-> IF e = "dev" THEN <<EarlierActive(1, "sha1")>>
                     ELSE IF e = "staging" THEN <<EarlierActive(2, "sha1")>>
                     ELSE << >>]}

\* the platform's deployment state after a status was written
StateOfStatus(status) ==
    IF status = "in_progress" THEN "IN_PROGRESS"
    ELSE IF status = "success" THEN "ACTIVE"
    ELSE "FAILURE"

\* the deployments of an environment after status was written to deployment id:
\* a success makes the other active deployments of its environment inactive
WithStatus(all, id, status) ==
    IF \E n \in 1..Len(all) : all[n].id = id
    THEN [n \in 1..Len(all) |->
            IF all[n].id = id
            THEN [all[n] EXCEPT !.state = StateOfStatus(status)]
            ELSE IF status = "success" /\ all[n].state = "ACTIVE"
                 THEN [all[n] EXCEPT !.state = "INACTIVE"]
                 ELSE all[n]]
    ELSE all

\* deployment.js 10-34: createDeploymentStatus writes the status of deployment id
createDeploymentStatus_Success(state, deploymentId) ==
    deployments' = [e \in Envs |-> WithStatus(deployments[e], deploymentId, "success")]

createDeploymentStatus(state, deploymentId) ==
    deployments' = [e \in Envs |-> WithStatus(deployments[e], deploymentId, state)]

(* ------------------------------ Init ----------------------------------- *)

Init ==
    /\ refs = [k \in {} |-> NullLock]
    /\ deployments \in EarlierDeployments
    /\ run = [i \in Invocations |-> NewRun]
    /\ held = [k \in LockKeys |-> {}]

(* ------------------- run(): lines 33-149 ------------------------------- *)

Triggers == {"deploy", "noop", "lock", "unlock", "help", "lock-info-alias"}

\* line 48: the state that makes the post-run step run
Started(i) == SaveState(run[i], "isPost", "true")

\* lines 54-60: 'unlock on merge' mode. Line 54 names unlockOnMerge the
\* auto-unlock logic and line 57 hands it inputs.environment_targets: it may
\* release the lock of any of these environments.
UnlockOnMergeMode(i) ==
    /\ run[i].pc = "idle"
    /\ \E keys \in SUBSET ((DOMAIN refs) \cap Envs) : DeleteRefs(keys)
    /\ Step(i, Return(SaveState(Call(Started(i), "unlockOnMerge"), "bypass", "true"),
                      "success - unlock on merge mode"))
    /\ UNCHANGED deployments

\* lines 63-69: 'merge deploy' mode
MergeDeployMode(i) ==
    /\ run[i].pc = "idle"
    /\ Step(i, Return(SaveState(Call(Started(i), "identicalCommitCheck"), "bypass", "true"),
                      "success - merge deploy mode"))
    /\ UNCHANGED <<refs, deployments, held>>

\* lines 75-104: invalid context, deprecated command or naked command
InvalidComment(i) ==
    /\ run[i].pc = "idle"
    /\ Step(i, Return(SaveState(Started(i), "bypass", "true"), "safe-exit"))
    /\ UNCHANGED <<refs, deployments, held>>

\* the first step of the path a triggered comment takes: lines 152, 181, 380
PathOf(isHelp, isLock, isUnlock, isLockInfoAlias) ==
    IF isHelp THEN "help"
    ELSE IF isLock \/ isUnlock \/ isLockInfoAlias THEN "lockperm"
    ELSE "envtargets"

\* lines 115-149: trigger detection, the 'type' output, the reaction
TriggerCheck(i) ==
    /\ run[i].pc = "idle"
    /\ \E body \in SUBSET Triggers :
         LET t == TypeOutput("deploy" \in body, "noop" \in body, "lock" \in body,
                             "unlock" \in body, "help" \in body,
                             "lock-info-alias" \in body)
             r == [Started(i) EXCEPT !.type = t]
             path == PathOf("help" \in body, "lock" \in body, "unlock" \in body,
                            "lock-info-alias" \in body)
         IN  IF t = "none"
             THEN Step(i, Return(SaveState(r, "bypass", "true"), "safe-exit"))
             ELSE Step(i, Goto(
                     [SaveState(SaveState(Call(r, "reactEmote"), "comment_id", "set"),
                                "reaction_id", "set")
                        EXCEPT !.cmd = IF path = "lockperm"
                                       THEN body \cap {"lock", "unlock", "lock-info-alias"}
                                       ELSE {}],
                     path))
    /\ UNCHANGED <<refs, deployments, held>>

(* ------------------- run(): help, lines 152-178 ------------------------ *)

Help(i) ==
    /\ run[i].pc = "help"
    /\ \E validPermissionsRes \in BOOLEAN :
         LET r == [Call(run[i], "validPermissions") EXCEPT !.validPermissionsRes =
                       IF validPermissionsRes = TRUE THEN "true" ELSE "message"]
         IN  IF PermissionDenied(validPermissionsRes)
             THEN Step(i, FailureExit(r))
             ELSE Step(i, Return(SaveState(Call(r, "help"), "bypass", "true"), "safe-exit"))
    /\ UNCHANGED <<refs, deployments, held>>

(* ------------------- run(): lock / unlock path, lines 181-377 ---------- *)

\* lines 183-200
LockPermissions(i) ==
    /\ run[i].pc = "lockperm"
    /\ \E validPermissionsRes \in BOOLEAN :
         LET r == [Call(run[i], "validPermissions") EXCEPT !.validPermissionsRes =
                       IF validPermissionsRes = TRUE THEN "true" ELSE "message"]
         IN  IF PermissionDenied(validPermissionsRes)
             THEN Step(i, FailureExit(r))
             ELSE Step(i, Goto(r, "lockenv"))
    /\ UNCHANGED <<refs, deployments, held>>

\* lines 203-234: the target of the lock command, and the branch that handles it
LockEnvironmentTargets(i) ==
    /\ run[i].pc = "lockenv"
    /\ \E lockEnvTargetCheck \in LockKeys \cup {NoEnv}, details \in BOOLEAN :
         LET r == Call(run[i], "environmentTargets")
         IN  IF TargetInvalid(lockEnvTargetCheck)
             THEN Step(i, Return(r, "safe-exit"))
             ELSE Step(i, Goto([r EXCEPT !.environment = lockEnvTargetCheck, !.cmd = {}],
                               LockPathBranch(run[i].cmd, details)))
    /\ UNCHANGED <<refs, deployments, held>>

\* lines 237-346: details only
LockInfo(i) ==
    /\ run[i].pc = "lockinfo"
    /\ LET r == [Call(run[i], "lock") EXCEPT !.lockResponse = Inspect(run[i].environment)]
       IN  Step(i, Return(SaveState(Call(r, "actionStatus"), "bypass", "true"), "safe-exit"))
    /\ UNCHANGED <<refs, deployments, held>>

\* lines 368-369: what follows lock() on the lock command's path
AfterLockCommand(r, response) ==
    Return(SaveState([r EXCEPT !.lockResponse = response], "bypass", "true"), "safe-exit")

\* lines 351-367: the lock command; lock() first looks at the global lock
LockCommand(i) ==
    /\ run[i].pc = "lockcmd"
    /\ LET r == [Call(run[i], "lock") EXCEPT !.stickyLocks = LockCommandSticky,
                                             !.leaveComment = TRUE]
       IN  IF GlobalLockBlocks(run[i].environment)
           THEN Step(i, AfterLockCommand(r, Contention(GlobalKey)))
           ELSE Step(i, Goto(r, "lockcmd_create"))
    /\ UNCHANGED <<refs, deployments, held>>

\* lock(): the atomic creation of the ref, for the lock command
LockCommandCreate(i) ==
    /\ run[i].pc = "lockcmd_create"
    /\ LET key == run[i].environment
       IN  IF CreateRefFails(key)
           THEN /\ Step(i, AfterLockCommand(run[i], Contention(key)))
                /\ UNCHANGED <<refs, held>>
           ELSE /\ CreateRef(i, key, run[i].stickyLocks)
                /\ Step(i, AfterLockCommand(run[i], Acquired(i, key, run[i].stickyLocks)))
    /\ UNCHANGED deployments

\* lines 374-375: what follows unlock(), whatever it found
AfterUnlock_Failure(r) == FailureExit(r)

AfterUnlock(r) == Return(SaveState(r, "bypass", "true"), "safe-exit")

\* lines 373-375: the unlock command; release(key) of an absent ref is a no-op,
\* a failed deletion of an existing ref is thrown and leaves the ref
UnlockCommand_FailureRemoves(i) ==
    /\ run[i].pc = "unlock"
    /\ LET key == run[i].environment
           r   == Call(run[i], "unlock")
       IN  \/ /\ DeleteRefs({key})
              /\ Step(i, AfterUnlock(r))
           \/ /\ DeleteRefMayFail(key)
              /\ Step(i, Catch(r))
              /\ DeleteRefs({key})
    /\ UNCHANGED deployments

UnlockCommand(i) ==
    /\ run[i].pc = "unlock"
    /\ LET key == run[i].environment
           r   == Call(run[i], "unlock")
       IN  \/ /\ DeleteRefs({key})
              /\ Step(i, AfterUnlock(r))
           \/ /\ DeleteRefMayFail(key)
              /\ Step(i, Catch(r))
              /\ UNCHANGED <<refs, held>>
    /\ UNCHANGED deployments

(* ------------------- run(): deploy path, lines 380-706 ----------------- *)

\* line 410: the environment handed to the post-run step is the resolved one,
\* not the default of line 52
SavedEnvironment_Default(env) == "dev"

SavedEnvironment(env) == env

\* lines 380-411
EnvironmentTargets(i) ==
    /\ run[i].pc = "envtargets"
    /\ \E env \in Envs \cup {NoEnv} :
         LET r == Call(run[i], "environmentTargets")
         IN  IF TargetInvalid(env)
             THEN Step(i, Return(r, "safe-exit"))
             ELSE Step(i, Goto(SaveState([r EXCEPT !.environment = env],
                                         "environment", SavedEnvironment(env)),
                               "prechecks"))
    /\ UNCHANGED <<refs, deployments, held>>

\* what prechecks() may return
PrecheckOutcomes ==
    {[status |-> "false", noopMode |-> FALSE, sha |-> "null"]}
    \cup [status : {"true"}, noopMode : BOOLEAN, sha : Shas]

\* lines 421-440
Prechecks(i) ==
    /\ run[i].pc = "prechecks"
    /\ \E res \in PrecheckOutcomes :
         LET r == SaveState([Call(run[i], "prechecks") EXCEPT !.precheckResults = res],
                            "ref", "set")
         IN  IF PrechecksFailed(res)
             THEN Step(i, FailureExit(r))
             ELSE Step(i, Goto(r, "commitsafety"))
    /\ UNCHANGED <<refs, deployments, held>>

\* lines 443-467
CommitSafetyChecks(i) ==
    /\ run[i].pc = "commitsafety"
    /\ \E status \in {"true", "false"} :
         LET r == [Call(Call(run[i], "getCommit"), "commitSafetyChecks")
                     EXCEPT !.commitSafetyCheckResults = status]
         IN  IF CommitSafetyFailed(status)
             THEN Step(i, FailureExit(r))
             ELSE Step(i, Goto(r, "order"))
    /\ UNCHANGED <<refs, deployments, held>>

\* lines 470-522
DeploymentOrder(i) ==
    /\ run[i].pc = "order"
    /\ \E order \in Orders, stable \in BOOLEAN :
         LET r0 == [run[i] EXCEPT !.inputs.enforced_deployment_order = order,
                                  !.stableBranchUsed = stable]
         IN  IF OrderCheckApplies(order, stable)
             THEN LET deploymentOrderResults ==
                          validDeploymentOrder(order, run[i].environment,
                                               run[i].precheckResults.sha)
                      r == [Call(r0, "validDeploymentOrder") EXCEPT
                              !.deploymentOrderResults =
                                  IF deploymentOrderResults.valid THEN "true" ELSE "false"]
                  IN  IF OrderInvalid(deploymentOrderResults)
                      THEN Step(i, FailureExit(r))
                      ELSE Step(i, Goto(r, "lock"))
             ELSE Step(i, Goto(r0, "lock"))
    /\ UNCHANGED <<refs, deployments, held>>

\* lines 566-569: what follows lock() on the deploy path
AfterLock_Retry(r, response) ==
    IF LockRequestFailed(response)
    THEN Goto([r EXCEPT !.lockResponse = response], "lock")
    ELSE Goto([r EXCEPT !.lockResponse = response], "comment")

AfterLock(r, response) ==
    IF LockRequestFailed(response)
    THEN Return([r EXCEPT !.lockResponse = response], "safe-exit")
    ELSE Goto([r EXCEPT !.lockResponse = response], "comment")

\* lines 531-564: the sticky policy and the call of lock(), which first looks
\* at the global lock
Lock(i) ==
    /\ run[i].pc = "lock"
    /\ \E sticky_locks \in BOOLEAN, sticky_locks_for_noop \in BOOLEAN :
         LET sticky == StickyLocks(run[i].precheckResults.noopMode, sticky_locks,
                                   sticky_locks_for_noop)
             r == [Call(run[i], "lock") EXCEPT
                     !.inputs = [NoInputs EXCEPT
                                   !.sticky_locks = sticky_locks,
                                   !.sticky_locks_for_noop = sticky_locks_for_noop],
                     !.stableBranchUsed = FALSE,
                     !.stickyLocks = sticky,
                     !.leaveComment = LeaveComment(sticky)]
         IN  IF GlobalLockBlocks(run[i].environment)
             THEN Step(i, AfterLock(r, Contention(GlobalKey)))
             ELSE Step(i, Goto(r, "lock_create"))
    /\ UNCHANGED <<refs, deployments, held>>

\* lock(): the atomic creation of the ref, for a deployment
LockCreate(i) ==
    /\ run[i].pc = "lock_create"
    /\ LET key == run[i].environment
           r   == [run[i] EXCEPT !.inputs = NoInputs]
       IN  IF CreateRefFails(key)
           THEN /\ Step(i, AfterLock(r, Contention(key)))
                /\ UNCHANGED <<refs, held>>
           ELSE /\ CreateRef(i, key, run[i].stickyLocks)
                /\ Step(i, AfterLock(r, Acquired(i, key, run[i].stickyLocks)))
    /\ UNCHANGED deployments

\* lines 571-616: the 'Deployment Triggered' comment; a noop run ends here
StartComment_NoNoopExit(i) ==
    /\ run[i].pc = "comment"
    /\ LET r == SaveState(Call(run[i], "createComment"), "initial_comment_id", "set")
       IN  Step(i, Goto(SaveState(r, "noop", "false"), "create"))
    /\ UNCHANGED <<refs, deployments, held>>

StartComment(i) ==
    /\ run[i].pc = "comment"
    /\ LET r == SaveState(Call(run[i], "createComment"), "initial_comment_id", "set")
       IN  IF run[i].precheckResults.noopMode
           THEN Step(i, Return(SaveState(r, "noop", "true"), "success - noop"))
           ELSE Step(i, Goto(SaveState(r, "noop", "false"), "create"))
    /\ UNCHANGED <<refs, deployments, held>>

\* what createDeployment may return without an id
NoIdOutcomes == {[id |-> NoId, message |-> m] : m \in {"Auto-merged", "other"}}

\* lines 673-691: what follows createDeployment
AfterCreateDeployment(r, deploy) ==
    LET r1 == SaveState([r EXCEPT !.createDeploy = deploy], "deployment_id",
                        IF deploy.id = NoId THEN "undefined" ELSE "set")
    IN  IF MergeRequired(deploy)
        THEN Return(SaveState(Call(r1, "actionStatus"), "bypass", "true"), "safe-exit")
        ELSE Goto(r1, "status")

\* lines 618-671: the platform creates the deployment, or returns no id
CreateDeployment(i) ==
    /\ run[i].pc = "create"
    /\ LET env == run[i].environment
           r   == Call(run[i], "createDeployment")
           new == [id |-> DeploymentCount + 1, state |-> "PENDING",
                   commit |-> run[i].precheckResults.sha, by |-> i]
       IN  \/ /\ deployments' = [deployments EXCEPT ![env] = Append(@, new)]
              /\ Step(i, AfterCreateDeployment(r, [id |-> new.id, message |-> "unset"]))
           \/ /\ \E deploy \in NoIdOutcomes : Step(i, AfterCreateDeployment(r, deploy))
              /\ UNCHANGED deployments
    /\ UNCHANGED <<refs, held>>

\* lines 694-706 and deployment.js 10-34: the in_progress status; the platform
\* rejects a status for an undefined deployment id
CreateInProgressStatus(i) ==
    /\ run[i].pc = "status"
    /\ LET id == run[i].createDeploy.id
           r  == Call(run[i], "createDeploymentStatus")
       IN  IF id = NoId
           THEN /\ Step(i, Catch(r))
                /\ UNCHANGED deployments
           ELSE /\ createDeploymentStatus("in_progress", id)
                /\ Step(i, Return(r, "success"))
    /\ UNCHANGED <<refs, held>>

(* ------------------- run(): lines 707-711, the catch block ------------- *)

\* the positions of run() at which the next call may throw
ThrowingSteps ==
    {"idle", "help", "lockperm", "lockenv", "lockinfo", "lockcmd", "lockcmd_create",
     "unlock", "envtargets", "prechecks", "commitsafety", "order", "lock",
     "lock_create", "comment", "create", "status"}

Throw(i) ==
    /\ run[i].pc \in ThrowingSteps
    /\ Step(i, Catch(IF run[i].pc = "idle" THEN Started(i) ELSE run[i]))
    /\ UNCHANGED <<refs, deployments, held>>

(* ------------------- the post-run step (4.5, 6) ------------------------ *)

\* lines 715-716 dispatch to post() when isPost was saved; post() returns at
\* once, changing nothing, when bypass was saved
PostRuns(st) == st.isPost = "true" /\ st.bypass # "true"

\* the one-shot lock this run acquired for its environment, if it is still there
OwnOneShotLock(i, st) ==
    IF /\ st.environment \in DOMAIN refs
       /\ ~refs[st.environment].sticky
       /\ refs[st.environment].link = i
    THEN {st.environment}
    ELSE {}

\* the lifecycle manager completes the deployment: the terminal status is
\* written and the one-shot lock is released with it
Post(i) ==
    /\ run[i].pc = "returned"
    /\ PostRuns(run[i].state)
    /\ \E status \in {"success", "failure"} :
         LET st == run[i].state
         IN  /\ IF st.deployment_id = "set"
                THEN createDeploymentStatus(status, run[i].createDeploy.id)
                ELSE UNCHANGED deployments
             /\ DeleteRefs(OwnOneShotLock(i, st))
             /\ Step(i, Goto(Call(run[i], "postDeploy"), "done"))

(* ------------------------------ Next ----------------------------------- *)

Next ==
    \E i \in Invocations :
        \/ UnlockOnMergeMode(i)
        \/ MergeDeployMode(i)
        \/ InvalidComment(i)
        \/ TriggerCheck(i)
        \/ Help(i)
        \/ LockPermissions(i)
        \/ LockEnvironmentTargets(i)
        \/ LockInfo(i)
        \/ LockCommand(i)
        \/ LockCommandCreate(i)
        \/ UnlockCommand(i)
        \/ EnvironmentTargets(i)
        \/ Prechecks(i)
        \/ CommitSafetyChecks(i)
        \/ DeploymentOrder(i)
        \/ Lock(i)
        \/ LockCreate(i)
        \/ StartComment(i)
        \/ CreateDeployment(i)
        \/ CreateInProgressStatus(i)
        \/ Throw(i)
        \/ Post(i)

Spec == Init /\ [][Next]_vars

(* ------------------------------ properties ---------------------------- *)

\* the lock ref of key is the one invocation i created
OwnsLock(i, key) == key \in DOMAIN refs /\ refs[key].link = i

\* invocation i acquired a lock that is not sticky
AcquiredOneShot(i) ==
    run[i].lockResponse.status = "true" /\ ~run[i].lockResponse.lockData.sticky

\* the run of a deploy or noop command that resolved its environment (line 410)
DeployRun(r) == r.state.environment # "unset"

\* the platform holds a deployment that invocation i created
Created(i) ==
    \E e \in Envs : \E n \in 1..Len(deployments[e]) : deployments[e][n].by = i

\* the deployment statuses after which a deployment is complete
Terminal == {"ACTIVE", "FAILURE", "INACTIVE"}

\* no invocation has a step left: each run returned and each post-run step that
\* runs has run
Quiescent ==
    \A j \in Invocations :
        \/ run[j].pc = "done"
        \/ run[j].pc = "returned" /\ ~PostRuns(run[j].state)

\* no invocation asked for an unlock, by command or in 'unlock on merge' mode
NoUnlockIssued ==
    \A j \in Invocations :
        ~Logged(run[j], "unlock") /\ ~Logged(run[j], "unlockOnMerge")

\* C1: lock exclusivity. Of the invocations that acquire the same key while it
\* is unlocked exactly one succeeds: a key never has two holders, the holder is
\* the invocation whose metadata the ref carries, and every other invocation
\* gets status false with the metadata of the winner (of that key, or of the
\* global lock), returns 'safe-exit' and neither posts the start comment nor
\* creates a deployment.
C1_LockExclusivity ==
    /\ \A k \in LockKeys :
         /\ Cardinality(held[k]) <= 1
         /\ k \in DOMAIN refs <=> held[k] # {}
         /\ k \in DOMAIN refs => held[k] = {refs[k].link}
    /\ \A i \in Invocations :
         LET r == run[i]
         IN  /\ r.lockResponse.status = "true" => r.lockResponse.lockData.link = i
             /\ r.lockResponse.status = "false" =>
                  /\ \E j \in Invocations \ {i} :
                        run[j].lockResponse =
                            [status |-> "true", lockData |-> r.lockResponse.lockData]
                  /\ \/ r.lockResponse.lockData.global
                     \/ r.lockResponse.lockData.environment = r.environment
                  /\ r.result = "safe-exit"
                  /\ ~Logged(r, "createComment")
                  /\ ~Logged(r, "createDeployment")

\* two deploy invocations raced for one environment: one holds the lock and is
\* still running, the other got its metadata back
C1_Witness ==
    \E i \in Invocations, j \in Invocations :
        /\ i # j
        /\ DeployRun(run[i]) /\ DeployRun(run[j])
        /\ run[i].lockResponse.status = "false"
        /\ ~run[i].lockResponse.lockData.global
        /\ run[i].lockResponse.lockData.link = j
        /\ run[j].pc = "comment"
        /\ OwnsLock(j, run[i].environment)

StickyLockChanged(key) ==
    /\ key \in DOMAIN refs
    /\ refs[key].sticky
    /\ key \notin DOMAIN refs' \/ refs'[key] # refs[key]

\* the step is the release of an explicit unlock command for key
ExplicitUnlock(key) ==
    \E i \in Invocations :
        /\ run[i].pc = "unlock"
        /\ run[i].environment = key
        /\ Logged(run'[i], "unlock")

\* the step is a run in 'unlock on merge' mode
UnlockOnMerge ==
    \E i \in Invocations :
        run[i].pc = "idle" /\ Logged(run'[i], "unlockOnMerge")

\* the lock the explicit lock command creates is sticky
LockCommandLocksSticky ==
    \A i \in Invocations :
        (run[i].pc = "lockcmd_create" /\ run'[i].lockResponse.status = "true")
        => /\ OwnsLock(i, run[i].environment)'
           /\ refs'[run[i].environment].sticky

C5_IdempotentRelease ==
    [][\A i \in Invocations :
          LET k == run[i].environment
          IN  /\ (run[i].pc = "unlock" /\ Logged(run'[i], "unlock") /\ k \notin DOMAIN refs)
                 => /\ run'[i].result = "safe-exit"
                    /\ ~run'[i].failed
                    /\ refs' = refs
              /\ (run[i].pc = "unlock" /\ run'[i].result = "safe-exit")
                 => k \notin DOMAIN refs'
              /\ (run[i].pc = "lockinfo" /\ run'[i].result = "safe-exit"
                    /\ k \notin DOMAIN refs)
                 => run'[i].lockResponse.status = "null"
              /\ (run[i].pc \in {"lock_create", "lockcmd_create"}
                    /\ run'[i].lockResponse.status # "unset" /\ k \notin DOMAIN refs)
                 => /\ run'[i].lockResponse.status = "true"
                    /\ OwnsLock(i, k)']_vars

\* two unlock commands for the same key both returned 'safe-exit' and the key
\* is unlocked
C5_Witness ==
    \E i \in Invocations, j \in Invocations :
        /\ i # j
        /\ Logged(run[i], "unlock") /\ run[i].result = "safe-exit"
        /\ Logged(run[j], "unlock") /\ run[j].result = "safe-exit"
        /\ run[i].environment = run[j].environment
        /\ run[i].environment \notin DOMAIN refs

\* C6: a crashed run does not leave its environment locked. When a deploy run
\* that acquired a one-shot lock threw afterwards, and every run and post-run
\* step has finished with no unlock asked for, the lock has been released.
C6_CrashedRunReleasesLock ==
    \A i \in Invocations :
        ( /\ DeployRun(run[i])
          /\ AcquiredOneShot(i)
          /\ run[i].result = "error"
          /\ Quiescent
          /\ NoUnlockIssued )
        => ~OwnsLock(i, run[i].environment)

\* C7: merge-required soft failure. When createDeployment returned no id and
\* an 'Auto-merged' message the run returns 'safe-exit' without setFailed, and
\* once every step has finished the lock of this attempt is held only if it is
\* sticky.
C7_MergeRequiredReleasesLock ==
    \A i \in Invocations :
        ( /\ MergeRequired(run[i].createDeploy)
          /\ run[i].pc \in {"returned", "done"}
          /\ Quiescent
          /\ NoUnlockIssued )
        => /\ run[i].result = "safe-exit"
           /\ ~run[i].failed
           /\ OwnsLock(i, run[i].environment) <=> run[i].lockResponse.lockData.sticky

\* call a comes before call b in the log of a run
Before(r, a, b) == 0 < Pos(r, a) /\ Pos(r, a) < Pos(r, b)

\* C8: the deployment object is created only after prechecks returned status
\* true, commit safety checks passed, order validation (when it was called)
\* returned valid and lock() did not return status false, in that order; and
\* the prechecks of a deploy run come before its lock acquisition.
C8_CreateAfterChecks ==
    \A i \in Invocations :
        LET r == run[i]
        IN  /\ (Created(i) \/ Logged(r, "createDeployment")) =>
                 /\ r.precheckResults.status = "true"
                 /\ r.commitSafetyCheckResults = "true"
                 /\ r.deploymentOrderResults # "false"
                 /\ r.lockResponse.status = "true"
                 /\ Before(r, "prechecks", "commitSafetyChecks")
                 /\ Before(r, "commitSafetyChecks", "lock")
                 /\ Before(r, "lock", "createDeployment")
                 /\ Logged(r, "validDeploymentOrder") =>
                        /\ r.deploymentOrderResults = "true"
                        /\ Before(r, "commitSafetyChecks", "validDeploymentOrder")
                        /\ Before(r, "validDeploymentOrder", "lock")
            /\ (DeployRun(r) /\ Logged(r, "lock")) =>
                 /\ r.precheckResults.status = "true"
                 /\ Before(r, "prechecks", "lock")

\* a deployment was created after a valid order validation
C8_Witness ==
    \E i \in Invocations :
        /\ Created(i)
        /\ run[i].deploymentOrderResults = "true"
        /\ run[i].environment = "prod"

\* every environment strictly before the target in the order has a latest
\* deployment that is ACTIVE at sha
AllPrecedingActive(order, target, sha) ==
    \A n \in 1..Len(order) :
        (\E m \in 1..Len(order) : n < m /\ order[m] = target)
        => LET all == deployments[order[n]]
           IN  /\ Len(all) > 0
               /\ all[Len(all)].state = "ACTIVE"
               /\ all[Len(all)].commit = sha

\* the target is the first environment of the order, or is not in it
FirstOrAbsent(order, target) ==
    \A n \in 2..Len(order) : order[n] # target

\* invocation i takes the step of lines 470-522 (and the step does not throw)
OrderStep(i) ==
    run[i].pc = "order" /\ run'[i].pc # "order" /\ run'[i].result # "error"

\* C9: order enforcement. With a non-empty order and a deploy that did not use
\* the stable branch, the run goes on to lock acquisition only if every
\* environment strictly before the target has a latest deployment ACTIVE at the
\* target sha, and returns 'failure' otherwise; a deploy to the first
\* environment of the order, or to one not in it, is never blocked.
C9_OrderEnforcement ==
    [][\A i \in Invocations :
          LET order  == run'[i].inputs.enforced_deployment_order
              target == run[i].environment
              sha    == run[i].precheckResults.sha
          IN  (OrderStep(i) /\ Len(order) > 0 /\ ~run'[i].stableBranchUsed)
              => /\ run'[i].pc = "lock" => AllPrecedingActive(order, target, sha)
                 /\ ~AllPrecedingActive(order, target, sha) => run'[i].result = "failure"
                 /\ FirstOrAbsent(order, target) => run'[i].pc = "lock"]_vars

\* a deploy to prod passed the order dev, staging, prod
C9_Witness ==
    \E i \in Invocations :
        /\ run[i].pc = "lock"
        /\ run[i].environment = "prod"
        /\ run[i].inputs.enforced_deployment_order = <<"dev", "staging", "prod">>
        /\ ~run[i].stableBranchUsed
        /\ run[i].deploymentOrderResults = "true"

\* C10: order validation is skipped, and cannot fail the run, when the deploy
\* used the stable branch or the order is empty; every other deploy or noop run
\* that passed prechecks and commit safety checks calls it.
C10_OrderSkipped ==
    [][\A i \in Invocations :
          LET order == run'[i].inputs.enforced_deployment_order
          IN  OrderStep(i)
              => /\ Logged(run'[i], "validDeploymentOrder")
                    <=> (Len(order) > 0 /\ ~run'[i].stableBranchUsed)
                 /\ (Len(order) = 0 \/ run'[i].stableBranchUsed)
                    => /\ run'[i].pc = "lock"
                       /\ run'[i].deploymentOrderResults = "unset"]_vars

\* a stable-branch deploy went on to the lock with a non-empty order unchecked
C10_Witness ==
    \E i \in Invocations :
        /\ run[i].pc = "lock"
        /\ run[i].stableBranchUsed
        /\ Len(run[i].inputs.enforced_deployment_order) > 0
        /\ ~Logged(run[i], "validDeploymentOrder")

\* number of times a call was made by a run
Count(r, call) == Cardinality({n \in 1..Len(r.log) : r.log[n] = call})

\* the calls of a run
Calls(r) == {r.log[n] : n \in 1..Len(r.log)}

\* a validation of the run failed: prechecks, commit safety or deployment order
ValidationFailed(r) ==
    \/ r.precheckResults.status = "false"
    \/ r.commitSafetyCheckResults = "false"
    \/ r.deploymentOrderResults = "false"

\* invocation i holds no lock ref and created no deployment
NoPlatformTrace(i) ==
    /\ \A k \in LockKeys : ~OwnsLock(i, k)
    /\ ~Created(i)

\* what a run whose validation failed has done, and how it ended
ValidationFailureOutcome(i) ==
    LET r == run[i]
    IN  ValidationFailed(r) =>
          /\ r.result = "failure"
          /\ r.pc = "returned"
          /\ Calls(r) \subseteq {"reactEmote", "environmentTargets", "prechecks", "getCommit",
                                 "commitSafetyChecks", "validDeploymentOrder", "actionStatus"}
          /\ NoPlatformTrace(i)

\* the steps of a run up to its validations do not touch refs or deployments
ValidationStepsReadOnly(i) ==
    ( /\ run'[i] # run[i]
      /\ run[i].pc \in {"idle", "envtargets", "prechecks", "commitsafety", "order"}
      /\ ~Logged(run'[i], "unlockOnMerge") )
    => /\ refs' = refs
       /\ deployments' = deployments

\* C11: validation failure leaves state untouched. When prechecks, commit
\* safety checks or order validation fail the run returns 'failure', has made
\* no lock acquire, unlock, deployment creation or deployment status update,
\* runs no post-run step, and none of its steps changed a lock ref or a
\* deployment.
C11_ValidationFailureUntouched ==
    /\ [](\A i \in Invocations : ValidationFailureOutcome(i))
    /\ [][\A i \in Invocations : ValidationStepsReadOnly(i)]_vars

\* a deploy to prod failed its order validation while dev has deployments and
\* the other invocation holds a lock
C11_Witness ==
    \E i \in Invocations, j \in Invocations :
        /\ i # j
        /\ run[i].deploymentOrderResults = "false"
        /\ run[i].environment = "prod"
        /\ run[i].result = "failure"
        /\ Len(deployments["dev"]) > 0
        /\ OwnsLock(j, "prod")

\* C12: lock contention on the deploy path is a non-failing outcome. A deploy
\* run whose lock acquisition returned status false returns 'safe-exit' without
\* setFailed, asked for the lock once, posts no 'Deployment Triggered' comment,
\* creates no deployment and sets no deployment status.
C12_ContentionSafeExit ==
    \A i \in Invocations :
        LET r == run[i]
        IN  (DeployRun(r) /\ r.lockResponse.status = "false") =>
              /\ r.result = "safe-exit"
              /\ ~r.failed
              /\ Count(r, "lock") = 1
              /\ Calls(r) \cap {"createComment", "createDeployment",
                                "createDeploymentStatus"} = {}
              /\ ~Created(i)

\* a deploy lost its environment to a lock of the other invocation, and its
\* post-run step has run
C12_Witness ==
    \E i \in Invocations, j \in Invocations :
        /\ i # j
        /\ DeployRun(run[i])
        /\ run[i].lockResponse.status = "false"
        /\ ~run[i].lockResponse.lockData.global
        /\ run[i].pc = "done"
        /\ OwnsLock(j, run[i].environment)

\* the run found no trigger, or its environment target did not resolve
SoftExit(r) ==
    \/ r.type = "none"
    \/ Logged(r, "environmentTargets") /\ r.environment = NoEnv

\* C13: soft exit has no lock side effects. A run that found no trigger, or
\* whose environment target is invalid (deploy path or lock/unlock path),
\* returns 'safe-exit', never calls setFailed, makes no lock acquire, unlock or
\* deployment creation, and neither its last step nor its post-run step changes
\* a lock ref or a deployment.
C13_SoftExitNoSideEffects ==
    /\ [](\A i \in Invocations :
            SoftExit(run[i]) =>
              /\ run[i].result = "safe-exit"
              /\ ~run[i].failed
              /\ Calls(run[i]) \cap {"lock", "unlock", "createDeployment"} = {}
              /\ NoPlatformTrace(i))
    /\ [][\A i \in Invocations :
            (run'[i] # run[i] /\ SoftExit(run'[i]))
            => refs' = refs /\ deployments' = deployments]_vars

\* an unlock command named an invalid target while the other invocation's lock
\* is held; the lock is still there after the post-run step
C13_Witness ==
    \E i \in Invocations, j \in Invocations :
        /\ i # j
        /\ run[i].type = "unlock"
        /\ Logged(run[i], "environmentTargets")
        /\ run[i].environment = NoEnv
        /\ run[i].pc = "done"
        /\ OwnsLock(j, "prod")

\* the values run() returns
Outcomes ==
    {"success", "success - noop", "success - merge deploy mode", "failure",
     "safe-exit", "success - unlock on merge mode"}

C15_FatalErrors ==
    /\ [](\A i \in Invocations :
            run[i].result = "error"
            => /\ run[i].state.bypass = "true"
               /\ run[i].failed
               /\ run[i].pc = "returned")
    /\ [][\A i \in Invocations :
            run[i].result = "error" => run'[i] = run[i]]_vars

\* the in_progress status of a created deployment threw
C15_Witness ==
    \E i \in Invocations :
        /\ run[i].result = "error"
        /\ Created(i)
        /\ run[i].state.deployment_id = "set"
        /\ run[i].state.bypass = "true"
        /\ ~Logged(run[i], "createDeploymentStatus")

\* C16: no silent failures. Every invocation that marked the run failed
\* (permission denied, precheck, commit safety or order failure, fatal error)
\* has posted a comment through actionStatus.
C16_NoSilentFailures ==
    \A i \in Invocations :
        run[i].failed => Logged(run[i], "actionStatus")

\* the most recently created deployment of an environment is ACTIVE at sha
LatestActiveAt(environment, sha) ==
    LET all == deployments[environment]
    IN  /\ Len(all) > 0
        /\ all[Len(all)].state = "ACTIVE"
        /\ all[Len(all)].commit = sha

\* C17: activeDeployment(environment, sha) is true if and only if the most
\* recently created deployment of the environment exists, is ACTIVE and has
\* commit sha; it is false with no deployment, with a latest deployment in
\* another state or at another sha, whatever the older deployments are.
C17_ActiveDeployment ==
    \A e \in Envs : \A sha \in Shas :
        /\ activeDeployment(e, sha) <=> LatestActiveAt(e, sha)
        /\ Len(deployments[e]) = 0 => ~activeDeployment(e, sha)

\* dev has an older deployment ACTIVE at sha1 and a latest one that failed at
\* sha1: activeDeployment is false, and the order validation of a deploy to
\* staging at sha1 was refused
C17_Witness ==
    \E j \in Invocations :
        LET all == deployments["dev"]
        IN  /\ Len(all) = 2
            /\ all[1].state = "ACTIVE" /\ all[1].commit = "sha1"
            /\ all[2].state = "FAILURE" /\ all[2].commit = "sha1"
            /\ ~activeDeployment("dev", "sha1")
            /\ run[j].environment = "staging"
            /\ run[j].precheckResults.sha = "sha1"
            /\ run[j].deploymentOrderResults = "false"

LockInfoRequest(r) ==
    \/ r.type = "lock-info-alias"
    \/ r.lockResponse.status \in {"details-only", "null"}

\* C19: lock-info requests are read-only. A run of the lock-info alias, or of a
\* lock trigger with a details flag, changes no lock ref and no deployment in
\* any of its steps, runs no prechecks, order validation, deployment creation
\* or unlock, reports the metadata of the current lock or that there is none,
\* and returns 'safe-exit' with bypass saved.
C19_LockInfoReadOnly ==
    /\ [](\A i \in Invocations :
            LET r == run[i]
            IN  /\ LockInfoRequest(r)
                   => /\ NoPlatformTrace(i)
                      /\ Calls(r) \cap {"prechecks", "commitSafetyChecks",
                                        "validDeploymentOrder", "createDeployment",
                                        "createDeploymentStatus", "unlock"} = {}
                /\ r.lockResponse.status \in {"details-only", "null"}
                   => /\ r.result = "safe-exit"
                      /\ r.state.bypass = "true"
                      /\ ~r.failed)
    /\ [][\A i \in Invocations :
            /\ (run'[i] # run[i] /\ LockInfoRequest(run'[i]))
               => refs' = refs /\ deployments' = deployments
            /\ (run[i].pc = "lockinfo" /\ run'[i].result = "safe-exit")
               => run'[i].lockResponse =
                    (IF run[i].environment \in DOMAIN refs
                     THEN [status |-> "details-only",
                           lockData |-> refs[run[i].environment]]
                     ELSE [status |-> "null", lockData |-> NullLock])]_vars

\* the lock-info alias reported the sticky lock of the other invocation, which
\* is still held
C19_Witness ==
    \E i \in Invocations, j \in Invocations :
        /\ i # j
        /\ run[i].type = "lock-info-alias"
        /\ run[i].lockResponse.status = "details-only"
        /\ run[i].lockResponse.lockData.link = j
        /\ run[i].result = "safe-exit"
        /\ OwnsLock(j, run[i].environment)
        /\ refs[run[i].environment] = run[i].lockResponse.lockData

\* the unlock command of invocation i ended in a failed deletion of its ref
FailedRelease(i) ==
    Logged(run[i], "unlock") /\ run[i].result = "error"

\* C20: a failed release does not corrupt lock state. When the deletion of the
\* lock ref fails the run ends in the catch block (setFailed, bypass) and every
\* lock ref, with its metadata, is as before; an unlock command that then
\* succeeds removes the ref of its key and no other, and no step rewrites the
\* metadata of a ref that stays.
C20_FailedReleaseKeepsLock ==
    [][/\ \A i \in Invocations :
            LET k == run[i].environment
            IN  /\ (run[i].pc = "unlock" /\ FailedRelease(i)')
                   => /\ k \in DOMAIN refs
                      /\ refs' = refs
                      /\ held' = held
                      /\ run'[i].failed
                      /\ run'[i].state.bypass = "true"
                /\ (run[i].pc = "unlock" /\ run'[i].result = "safe-exit")
                   => refs' = Remove(refs, {k})
       /\ \A k \in (DOMAIN refs) \cap (DOMAIN refs') : refs'[k] = refs[k]]_vars

\* the release of an unlock command failed on the one-shot lock of a
\* deployment, the later release of the deployment's post-run step succeeded,
\* and the key is unlocked
C20_Witness ==
    \E i \in Invocations, j \in Invocations :
        /\ i # j
        /\ FailedRelease(i)
        /\ AcquiredOneShot(j)
        /\ run[j].pc = "done"
        /\ run[i].environment = run[j].environment
        /\ run[i].environment \notin DOMAIN refs

\* C21: with sticky_locks false no deploy applies a sticky lock: whatever
\* noopMode and sticky_locks_for_noop are, the sticky flag handed to lock() on
\* the deploy path is false.
C21_NoStickyWhenDisabled ==
    \A i \in Invocations :
        (run[i].pc = "lock_create" /\ ~run[i].inputs.sticky_locks)
        => ~run[i].stickyLocks

\* C22: permission gating of help, lock, lock-info and unlock requests. When
\* validPermissions returns anything but true the run posts the message, saves
\* bypass, calls setFailed and returns 'failure'; it resolves no environment,
\* acquires, inspects or releases no lock and renders no help.
C22_PermissionGating ==
    \A i \in Invocations :
        LET r == run[i]
        IN  r.validPermissionsRes = "message" =>
              /\ r.result = "failure"
              /\ r.failed
              /\ r.state.bypass = "true"
              /\ r.log = <<"reactEmote", "validPermissions", "actionStatus">>
              /\ r.environment = NoEnv
              /\ r.lockResponse = NoLockResponse
              /\ NoPlatformTrace(i)

\* an unlock request was denied while the other invocation's lock is held
C22_Witness ==
    \E i \in Invocations, j \in Invocations :
        /\ i # j
        /\ run[i].type = "unlock"
        /\ run[i].validPermissionsRes = "message"
        /\ run[i].result = "failure"
        /\ OwnsLock(j, "prod")

\* C23: noop deployments. A run whose prechecks reported noopMode and that
\* acquired the lock returns 'success - noop' after the lock and the start
\* comment, with no deployment created and no deployment status set; a
\* deployment and its in_progress status exist only for runs with noopMode
\* false.
C23_NoopDeployments ==
    \A i \in Invocations :
        LET r    == run[i]
            noop == r.precheckResults.noopMode
        IN  /\ r.result = "success - noop"
               => /\ noop
                  /\ r.lockResponse.status = "true"
                  /\ Before(r, "lock", "createComment")
                  /\ Calls(r) \cap {"createDeployment", "createDeploymentStatus"} = {}
                  /\ ~Created(i)
                  /\ r.state.deployment_id = "unset"
            /\ (noop /\ r.lockResponse.status = "true" /\ Logged(r, "createComment"))
               => r.result = "success - noop"
            /\ (Created(i) \/ Calls(r) \cap {"createDeployment",
                                             "createDeploymentStatus"} # {})
               => ~noop

\* a noop deploy under a one-shot lock ended, its post-run step released the
\* lock, and the platform has no deployment of it
C23_Witness ==
    \E i \in Invocations :
        /\ run[i].result = "success - noop"
        /\ AcquiredOneShot(i)
        /\ run[i].pc = "done"
        /\ run[i].environment \notin DOMAIN refs
        /\ ~Created(i)

\* the deployment of invocation i, as the platform holds it
DeploymentOf(i) ==
    {d \in UNION {{deployments[e][n] : n \in 1..Len(deployments[e])} : e \in Envs} :
        d.by = i /\ d.id = run[i].createDeploy.id}

\* what a step of the main run of invocation i does to the deployments of an
\* environment: it leaves each as it is or moves the one it created from
\* PENDING to IN_PROGRESS, and a deployment it adds is PENDING
MainRunWrites(i, old, new) ==
    /\ Len(new) >= Len(old)
    /\ \A n \in 1..Len(old) :
         \/ new[n] = old[n]
         \/ /\ run[i].pc = "status"
            /\ run[i].createDeploy.id # NoId
            /\ old[n].id = run[i].createDeploy.id
            /\ old[n].state = "PENDING"
            /\ new[n] = [old[n] EXCEPT !.state = "IN_PROGRESS"]
    /\ \A n \in (Len(old) + 1)..Len(new) : new[n].state = "PENDING"

\* C24: deployment status in the main run. The in_progress status is written
\* at most once per invocation, for the deployment the run created with a
\* defined id, after the lock was acquired; a run that returned 'success' has
\* written it; and no step of the main run writes another status.
C24_InProgressOnce ==
    /\ [](\A i \in Invocations :
            LET r == run[i]
            IN  /\ Count(r, "createDeploymentStatus") <= 1
                /\ Logged(r, "createDeploymentStatus")
                   => /\ r.lockResponse.status = "true"
                      /\ Before(r, "lock", "createDeployment")
                      /\ Before(r, "createDeployment", "createDeploymentStatus")
                /\ r.result = "success"
                   => /\ Logged(r, "createDeploymentStatus")
                      /\ r.createDeploy.id # NoId
                      /\ DeploymentOf(i) # {}
                      /\ \A d \in DeploymentOf(i) : d.state # "PENDING")
    /\ [][\A i \in Invocations :
            (run'[i] # run[i] /\ run[i].pc \notin {"returned", "done"})
            => \A e \in Envs : MainRunWrites(i, deployments[e], deployments'[e])]_vars

\* a run returned 'success' and its deployment is in progress, its post-run
\* step still to come
C24_Witness ==
    \E i \in Invocations :
        /\ run[i].result = "success"
        /\ run[i].pc = "returned"
        /\ \E d \in DeploymentOf(i) : d.state = "IN_PROGRESS"

\* the keys of the saved state that every started deployment hands over
HandedOver == {"comment_id", "reaction_id", "environment", "ref",
               "initial_comment_id", "noop"}

\* C25: state handed to the post-run step. A run that returned 'success' has
\* saved isPost = 'true', comment_id, reaction_id, environment, ref,
\* initial_comment_id, noop and a defined deployment_id; a run that returned
\* 'success - noop' has saved the same keys but no deployment_id.
C25_StateHandedToPost ==
    \A i \in Invocations :
        LET r == run[i]
        IN  r.result \in {"success", "success - noop"}
            => /\ r.state.isPost = "true"
               /\ \A key \in HandedOver : r.state[key] # "unset"
               /\ r.state.environment = r.environment
               /\ r.state.noop = (IF r.result = "success" THEN "false" ELSE "true")
               /\ r.state.deployment_id =
                     (IF r.result = "success" THEN "set" ELSE "unset")

\* one invocation returned 'success' and the other 'success - noop', for
\* different environments
C25_Witness ==
    \E i \in Invocations, j \in Invocations :
        /\ run[i].result = "success"
        /\ run[j].result = "success - noop"
        /\ run[i].state.environment = "prod"
        /\ run[j].state.environment = "dev"
        /\ run[i].state.deployment_id = "set"

\* C26: post-run cleanup is never bypassed for a started deployment. A run
\* that returned 'success' or 'success - noop' never saved bypass; a run that
\* returned 'failure', 'success - merge deploy mode' or 'success - unlock on
\* merge mode' saved bypass = 'true' before it returned.
C26_BypassOnlyWhenNotStarted ==
    \A i \in Invocations :
        LET r == run[i]
        IN  /\ r.result \in {"success", "success - noop"}
               => /\ r.state.bypass = "unset"
                  /\ PostRuns(r.state) \/ r.pc = "done"
            /\ r.result \in {"failure", "success - merge deploy mode",
                             "success - unlock on merge mode"}
               => /\ r.state.bypass = "true"
                  /\ r.pc = "returned"

\* a deployment that started had its post-run step, and the deploy that failed
\* its order validation is bypassed
C26_Witness ==
    \E i \in Invocations, j \in Invocations :
        /\ run[i].result = "success" /\ run[i].pc = "done"
        /\ run[i].state.bypass = "unset"
        /\ run[j].result = "failure"
        /\ run[j].deploymentOrderResults = "false"
        /\ run[j].state.bypass = "true"

\* the positions of run() on each of its paths
HelpPath == {"help"}

LockPath == {"lockperm", "lockenv", "lockinfo", "lockcmd", "lockcmd_create"}

UnlockPath == {"lockperm", "lockenv", "unlock"}

DeployPath == {"envtargets", "prechecks", "commitsafety", "order", "lock",
               "lock_create", "comment", "create", "status"}

\* C27: the 'type' output names the command whose branch is executed, for every
\* combination of the six trigger matches: a run is on the deploy path only
\* with type 'deploy', on the help path only with type 'help', on the lock /
\* lock-info path only with type 'lock' or 'lock-info-alias', on the unlock
\* path only with type 'unlock'.
C27_TypeMatchesPath ==
    \A i \in Invocations :
        LET r == run[i]
        IN  /\ r.pc \in DeployPath => r.type = "deploy"
            /\ r.pc \in HelpPath => r.type = "help"
            /\ r.pc \in LockPath \ UnlockPath => r.type \in {"lock", "lock-info-alias"}
            /\ r.pc \in UnlockPath \ LockPath => r.type = "unlock"
            /\ r.pc \in LockPath \cap UnlockPath
               => r.type \in {"lock", "lock-info-alias", "unlock"}

=============================================================================
